---- MODULE Spec2Model ----
(***************************************************************************)
(* tidy-exit (lib/tidy-exit.js): the shutdown coordinator.                 *)
(*                                                                         *)
(* The module-level variables of tidy-exit.js are the state. Every public  *)
(* operation, every listener the library binds on `process`, the safety-   *)
(* net timer callback and every completion callback handed to a task is    *)
(* one action; a handler runs to completion (node's single thread), so an  *)
(* action contains everything the handler calls synchronously.             *)
(*                                                                         *)
(* process.exit is the primitive as the repository's test-suite runs it    *)
(* (sinon's mock_process.expects('exit')): the call is recorded in         *)
(* exit_calls and control returns to the caller.                           *)
(*                                                                         *)
(* hookHttpServer and hookExpressApp act on one http server and one        *)
(* express app of the application; neither is touched by _reset. The       *)
(* server's close(callback) stops it accepting connections and calls the   *)
(* callback from its 'close' event, emitted once no request is in flight.  *)
(*                                                                         *)
(* Specifications: Spec (the life cycle), FairSpec (Spec with the armed    *)
(* timer eventually firing), SpecTimeout (the timeout policy over every    *)
(* kind of argument), SpecHooks (the http and express hooks) and           *)
(* SpecAfterReset (what callbacks and timers left over by a _reset do).    *)
(***************************************************************************)
EXTENDS Integers, Sequences, FiniteSets, TLC

\* ------------------------------------------------------------------------
\* Bounds of the model
\* ------------------------------------------------------------------------
MaxTasks == 2        \* live application task registrations
MaxSignals == 2      \* process events delivered (signals and messages)
MaxResets == 1       \* _reset() calls
MaxDoneCalls == 2    \* times one task invokes its completion callback
MaxSync == 1         \* of these, at most this many inside the task's callback
MaxTimeout == 2      \* largest timeout argument tried by SpecTimeout
MaxRequests == 1     \* requests in flight on the http server
MaxHookCalls == 2    \* hookExpressApp calls made by the application
MaxStale == 3        \* tasks notified before the _reset of SpecAfterReset

\* ------------------------------------------------------------------------
\* Configuration (tidy-exit.js:53-81)
\* ------------------------------------------------------------------------
SYSTEM_EXIT_SIGNALS == {"SIGTERM", "SIGINT", "SIGBREAK"}

DEFAULT_GRACEFUL_TIMEOUT == 2 * 60 * 1000

\* Every event name the library binds a listener for on `process`.
EXIT_SOURCES == {"message"} \cup SYSTEM_EXIT_SIGNALS

\* The listener number of _defaultExitHandler among the tidyExit listeners;
\* application tasks are numbered 1, 2, ... in registration order.
DEFAULT_HANDLER == 0

\* ------------------------------------------------------------------------
\* JavaScript values of the timeout arguments
\* ------------------------------------------------------------------------
Undefined == [t |-> "undefined", v |-> 0]
Null == [t |-> "null", v |-> 0]
Num(n) == [t |-> "number", v |-> n]

\* ToBoolean: undefined, null and 0 are falsy.
Truthy(x) == x.t = "number" /\ x.v # 0

\* a > b on numbers, after ToNumber: undefined is NaN (every comparison is
\* false), null is 0.
JsGreater(a, b) ==
    /\ a.t # "undefined"
    /\ b.t # "undefined"
    /\ a.v > b.v

\* Timeout arguments tried by the life-cycle specification and by the
\* timeout specification.
LifecycleTimeouts == {Undefined}
LifecycleMaxTimeouts == {Num(2)}
TimeoutArgs == {Undefined, Null} \cup {Num(n) : n \in -1..MaxTimeout}

VARIABLES
    max_timeout,               \* tidy-exit.js:105
    max_handler_timeout,       \* tidy-exit.js:106
    listening_to_exit,         \* tidy-exit.js:102 (undefined is FALSE)
    exit_signal_handlers,      \* tidy-exit.js:101: handles tracked per source
    process_listeners,         \* the library's once-listeners bound on process
    tidy_listeners,            \* once-listeners of 'tidyExit' on tidy_exit_event
    done_listeners,            \* _checkHandlersDone listeners of 'done'
    handler_callback_registry, \* tidy-exit.js:103
    registered_handlers_count, \* tidy-exit.js:100
    default_exit_timer,        \* tidy-exit.js:108: "null", "pending", "fired"
    timer_duration,            \* the delay the pending timer was armed with
    tasks,                     \* application tasks and their done closures
    exit_calls,                \* process.exit calls since the last _reset
    broadcasts,                \* 'tidyExit' emissions since the last _reset
    triggers,                  \* qualifying events delivered since the last _reset
    timeout_args,              \* timeout arguments registered since the last _reset
    signals,                   \* process events delivered so far
    resets,                    \* _reset() calls so far
    fired,                     \* runs of the library's process listeners, per
                               \* source, since the last _reset
    timers_armed,              \* setTimeout calls since the last _reset
    timer_fires,               \* runs of the timer callback since the last _reset
    app,                       \* the express app: its tidy_exit_state setting,
                               \* its middleware, the tasks registered for it
    server,                    \* the http server: its request listener, whether
                               \* it accepts connections, requests in flight
    hook_log                   \* what the hook calls returned, and which hooks
                               \* were called before the cycle's first broadcast

vars == <<max_timeout, max_handler_timeout, listening_to_exit,
          exit_signal_handlers, process_listeners, tidy_listeners,
          done_listeners, handler_callback_registry,
          registered_handlers_count, default_exit_timer, timer_duration,
          tasks, exit_calls, broadcasts, triggers, timeout_args, signals,
          resets, fired, timers_armed, timer_fires, app, server, hook_log>>

\* The coordinator's state as one record, threaded through a handler.
Cur ==
    [max_timeout |-> max_timeout,
     max_handler_timeout |-> max_handler_timeout,
     listening_to_exit |-> listening_to_exit,
     exit_signal_handlers |-> exit_signal_handlers,
     process_listeners |-> process_listeners,
     tidy_listeners |-> tidy_listeners,
     done_listeners |-> done_listeners,
     handler_callback_registry |-> handler_callback_registry,
     registered_handlers_count |-> registered_handlers_count,
     default_exit_timer |-> default_exit_timer,
     timer_duration |-> timer_duration,
     tasks |-> tasks,
     exit_calls |-> exit_calls,
     broadcasts |-> broadcasts,
     timeout_args |-> timeout_args,
     fired |-> fired,
     timers_armed |-> timers_armed,
     timer_fires |-> timer_fires,
     app |-> app,
     server |-> server,
     uninvoked |-> 0]    \* inside a broadcast: listeners of it yet to run

Commit(s) ==
    /\ max_timeout' = s.max_timeout
    /\ max_handler_timeout' = s.max_handler_timeout
    /\ listening_to_exit' = s.listening_to_exit
    /\ exit_signal_handlers' = s.exit_signal_handlers
    /\ process_listeners' = s.process_listeners
    /\ tidy_listeners' = s.tidy_listeners
    /\ done_listeners' = s.done_listeners
    /\ handler_callback_registry' = s.handler_callback_registry
    /\ registered_handlers_count' = s.registered_handlers_count
    /\ default_exit_timer' = s.default_exit_timer
    /\ timer_duration' = s.timer_duration
    /\ tasks' = s.tasks
    /\ exit_calls' = s.exit_calls
    /\ broadcasts' = s.broadcasts
    /\ timeout_args' = s.timeout_args
    /\ fired' = s.fired
    /\ timers_armed' = s.timers_armed
    /\ timer_fires' = s.timer_fires
    /\ app' = s.app
    /\ server' = s.server

\* ------------------------------------------------------------------------
\* Helpers
\* ------------------------------------------------------------------------
\* The application tasks notified in the current cycle that have not invoked
\* their completion callback.
PendingTasks(s) ==
    {i \in 1..Len(s.tasks) :
        /\ ~s.tasks[i].stale
        /\ s.tasks[i].slot > 0
        /\ s.tasks[i].calls = 0}

\* ------------------------------------------------------------------------
\* Timeout policy (tidy-exit.js:302-322)
\* ------------------------------------------------------------------------
\* getTimeout without the comparison against the explicit maximum.
getTimeout_ignoresMax(s) ==
    IF s.max_handler_timeout # 0
    THEN s.max_handler_timeout
    ELSE IF Truthy(s.max_timeout)
         THEN s.max_timeout.v
         ELSE DEFAULT_GRACEFUL_TIMEOUT

\* getTimeout with the comparison against the explicit maximum reversed.
getTimeout_reversed(s) ==
    IF /\ s.max_handler_timeout # 0
       /\ \/ ~Truthy(s.max_timeout)
          \/ JsGreater(Num(s.max_handler_timeout), s.max_timeout)
    THEN s.max_handler_timeout
    ELSE IF Truthy(s.max_timeout)
         THEN s.max_timeout.v
         ELSE DEFAULT_GRACEFUL_TIMEOUT

getTimeout(s) ==
    IF /\ s.max_handler_timeout # 0
       /\ \/ ~Truthy(s.max_timeout)
          \/ JsGreater(s.max_timeout, Num(s.max_handler_timeout))
    THEN s.max_handler_timeout
    ELSE IF Truthy(s.max_timeout)
         THEN s.max_timeout.v
         ELSE DEFAULT_GRACEFUL_TIMEOUT

setMaxTimeout(s, timeout) == [s EXCEPT !.max_timeout = timeout]

\* ------------------------------------------------------------------------
\* Signal listener registry (tidy-exit.js:155-220)
\* ------------------------------------------------------------------------
\* process.once(signal, handler); handlers.push(handler)
_addExitHandler(s, signal) ==
    [s EXCEPT !.process_listeners[signal] = @ + 1,
              !.exit_signal_handlers[signal] = @ + 1]

\* _registerExitListeners without the listening_to_exit guard.
_registerExitListeners_unguarded(s) ==
    LET s1 == _addExitHandler(s, "message")
        s2 == _addExitHandler(s1, "SIGTERM")
        s3 == _addExitHandler(s2, "SIGINT")
        s4 == _addExitHandler(s3, "SIGBREAK")
    IN [s4 EXCEPT !.listening_to_exit = TRUE]

_registerExitListeners(s) ==
    IF s.listening_to_exit # TRUE
    THEN LET s1 == _addExitHandler(s, "message")
             s2 == _addExitHandler(s1, "SIGTERM")
             s3 == _addExitHandler(s2, "SIGINT")
             s4 == _addExitHandler(s3, "SIGBREAK")
         IN [s4 EXCEPT !.listening_to_exit = TRUE]
    ELSE s

\* _cleanupExitListeners that forgets the handles without unbinding them.
_cleanupExitListeners_keepsBound(s) ==
    [s EXCEPT !.exit_signal_handlers = [g \in EXIT_SOURCES |-> 0],
              !.listening_to_exit = FALSE]

\* process.removeListener for every tracked handle: a handle that already
\* fired is no longer bound and its removal changes nothing.
_cleanupExitListeners(s) ==
    [s EXCEPT !.process_listeners =
                  [g \in EXIT_SOURCES |->
                      IF s.process_listeners[g] > s.exit_signal_handlers[g]
                      THEN s.process_listeners[g] - s.exit_signal_handlers[g]
                      ELSE 0],
              !.exit_signal_handlers = [g \in EXIT_SOURCES |-> 0],
              !.listening_to_exit = FALSE]

\* ------------------------------------------------------------------------
\* Exit coordinator (tidy-exit.js:266-293)
\* ------------------------------------------------------------------------
\* process.exit(status): recorded with what is true at the call.
ProcessExit(s, status) ==
    [s EXCEPT !.exit_calls = Append(@,
        [status |-> status,
         timer_fired |-> (s.default_exit_timer = "fired"),
         pending |-> Cardinality(PendingTasks(s)),
         in_flight |-> s.server.requests,
         server_closed |-> s.server.closed,
         flag |-> s.app.state,
         uninvoked |-> s.uninvoked])]

\* all_done decided by the last counter visited alone.
AllDone_lastCounterWins(s) ==
    /\ s.registered_handlers_count <= Len(s.handler_callback_registry)
    /\ \/ s.handler_callback_registry = <<>>
       \/ s.handler_callback_registry[Len(s.handler_callback_registry)] >= 1

\* The value _checkHandlersDone returns (all_done) in state s.
AllDone(s) ==
    /\ s.registered_handlers_count <= Len(s.handler_callback_registry)
    /\ \A i \in 1..Len(s.handler_callback_registry) :
           s.handler_callback_registry[i] >= 1

\* _checkHandlersDone that marks the slot but never exits on its own.
_checkHandlersDone_neverExits(s, handler_number) ==
    IF /\ handler_number # 0
       /\ handler_number <= Len(s.handler_callback_registry)
    THEN [s EXCEPT !.handler_callback_registry[handler_number] = @ + 1]
    ELSE s

\* _checkHandlersDone without the range check on handler_number: the
\* increment of an element past the end extends the array.
_checkHandlersDone_unchecked(s, handler_number) ==
    LET s1 == IF handler_number = 0 THEN s
              ELSE IF handler_number <= Len(s.handler_callback_registry)
              THEN [s EXCEPT !.handler_callback_registry[handler_number] = @ + 1]
              ELSE [s EXCEPT !.handler_callback_registry = Append(@, 1)]
    IN IF AllDone(s1) THEN ProcessExit(s1, 0) ELSE s1

\* handler_number 0 stands for a call without argument.
_checkHandlersDone(s, handler_number) ==
    LET s1 == IF /\ handler_number # 0
                 /\ handler_number <= Len(s.handler_callback_registry)
              THEN [s EXCEPT !.handler_callback_registry[handler_number] = @ + 1]
              ELSE s
    IN IF AllDone(s1) THEN ProcessExit(s1, 0) ELSE s1

\* tidy_exit_event.emit(GRACEFUL_DONE, handler_number): every 'done'
\* listener of the current emitter runs in turn.
RECURSIVE EmitDone(_, _, _)
EmitDone(s, handler_number, n) ==
    IF n = 0 THEN s
    ELSE EmitDone(_checkHandlersDone(s, handler_number), handler_number, n - 1)

\* The completion callback handed to a listener (tidy-exit.js:248-250).
Done(s, handler_number) == EmitDone(s, handler_number, s.done_listeners)

\* Application task i invokes its completion callback.
TaskCallsDone(s, i) ==
    Done([s EXCEPT !.tasks[i].calls = @ + 1], s.tasks[i].slot)

RECURSIVE TaskCallsDoneTimes(_, _, _)
TaskCallsDoneTimes(s, i, n) ==
    IF n = 0 THEN s ELSE TaskCallsDoneTimes(TaskCallsDone(s, i), i, n - 1)

\* ------------------------------------------------------------------------
\* Safety-net task (tidy-exit.js:333-345)
\* ------------------------------------------------------------------------
\* _defaultExitHandler that reports done without arming the timer.
_defaultExitHandler_noTimer(s, handler_number) == Done(s, handler_number)

\* _defaultExitHandler that arms a timer on every invocation.
_defaultExitHandler_alwaysArms(s, handler_number) ==
    Done([s EXCEPT !.default_exit_timer = "pending",
                   !.timer_duration = getTimeout(s),
                   !.timers_armed = @ + 1],
         handler_number)

\* _defaultExitHandler that arms the timer with the built-in default delay.
_defaultExitHandler_fixedDelay(s, handler_number) ==
    LET s1 == IF s.default_exit_timer = "null"
              THEN [s EXCEPT !.default_exit_timer = "pending",
                             !.timer_duration = DEFAULT_GRACEFUL_TIMEOUT,
                             !.timers_armed = @ + 1]
              ELSE s
    IN Done(s1, handler_number)

_defaultExitHandler(s, handler_number) ==
    LET s1 == IF s.default_exit_timer = "null"
              THEN [s EXCEPT !.default_exit_timer = "pending",
                             !.timer_duration = getTimeout(s),
                             !.timers_armed = @ + 1]
              ELSE s
    IN Done(s1, handler_number)

\* The callback given to setTimeout (tidy-exit.js:337-342).
TimerCallback(s) ==
    LET s1 == _checkHandlersDone([s EXCEPT !.default_exit_timer = "fired",
                                           !.timer_fires = @ + 1], 0)
    IN IF ~AllDone(s1) THEN ProcessExit(s1, 1) ELSE s1

\* ------------------------------------------------------------------------
\* Handler registry (tidy-exit.js:242-256)
\* ------------------------------------------------------------------------
\* addTidyExitHandler that gives the task its registry slot when it is
\* registered, and again when its listener runs.
addTidyExitHandler_pushesAtRegistration(s, id, timeout) ==
    LET s1 == _registerExitListeners(s)
        s2 == [s1 EXCEPT !.tidy_listeners = Append(@, id),
                         !.timeout_args = Append(@, timeout),
                         !.handler_callback_registry = Append(@, 0)]
    IN IF JsGreater(timeout, Num(s2.max_handler_timeout))
       THEN [s2 EXCEPT !.max_handler_timeout = timeout.v]
       ELSE s2

addTidyExitHandler(s, id, timeout) ==
    LET s1 == _registerExitListeners(s)
        s2 == [s1 EXCEPT !.tidy_listeners = Append(@, id),
                         !.timeout_args = Append(@, timeout)]
    IN IF JsGreater(timeout, Num(s2.max_handler_timeout))
       THEN [s2 EXCEPT !.max_handler_timeout = timeout.v]
       ELSE s2

\* ------------------------------------------------------------------------
\* Task callbacks
\* ------------------------------------------------------------------------
\* The task of hookHttpServer (tidy-exit.js:481-483): server.close(done)
\* stops the server accepting connections; done is called by the server's
\* 'close' event, emitted once no connection is left.
HttpServerTask(s, id) ==
    [s EXCEPT !.server.accepting = FALSE,
              !.tasks[id].waiting = TRUE]

\* The task of hookExpressApp (tidy-exit.js:428-431).
ExpressAppTask(s, id) ==
    TaskCallsDone([s EXCEPT !.app.state = "true"], id)

\* The once-listener bound by addTidyExitHandler, run by the broadcast.
ExitListener(s, id) ==
    LET handler_number == Len(s.handler_callback_registry) + 1
        s1 == [s EXCEPT !.handler_callback_registry = Append(@, 0)]
    IN IF id = DEFAULT_HANDLER
       THEN _defaultExitHandler(s1, handler_number)
       ELSE LET s2 == [s1 EXCEPT !.tasks[id].slot = handler_number,
                                 !.tasks[id].invoked = @ + 1]
            IN CASE s.tasks[id].kind = "plain" ->
                        TaskCallsDoneTimes(s2, id, s.tasks[id].sync)
                 [] s.tasks[id].kind = "server" -> HttpServerTask(s2, id)
                 [] s.tasks[id].kind = "router" -> ExpressAppTask(s2, id)

\* ------------------------------------------------------------------------
\* Shutdown trigger (tidy-exit.js:140-144, 355-358)
\* ------------------------------------------------------------------------
_registerDefaultTimeoutHandler(s) ==
    LET s1 == addTidyExitHandler(s, DEFAULT_HANDLER, Undefined)
    IN [s1 EXCEPT !.done_listeners = @ + 1]

\* The emission with listeners that stay bound (on instead of once).
RECURSIVE Broadcast_keepsListeners(_, _)
Broadcast_keepsListeners(s, listeners) ==
    IF listeners = <<>> THEN s
    ELSE Broadcast_keepsListeners(
             ExitListener([s EXCEPT !.uninvoked = Len(listeners) - 1],
                          Head(listeners)),
             Tail(listeners))

\* emit(tidy_exit, signal): the listeners bound when the emission starts run
\* in registration order; each is a once-listener, unbound as it runs.
RECURSIVE Broadcast(_, _)
Broadcast(s, listeners) ==
    IF listeners = <<>> THEN s
    ELSE Broadcast(ExitListener([s EXCEPT !.tidy_listeners = Tail(@),
                                          !.uninvoked = Len(listeners) - 1],
                                Head(listeners)),
                   Tail(listeners))

_emittidyExitEvent(s) ==
    LET s1 == _registerDefaultTimeoutHandler(s)
        s2 == [s1 EXCEPT !.registered_handlers_count = Len(s1.tidy_listeners),
                         !.broadcasts = @ + 1]
    IN Broadcast(s2, s2.tidy_listeners)

\* process.emit(source, payload): the n once-listeners bound for the source
\* are unbound and run; the 'message' listener acts on 'shutdown' only
\* (tidy-exit.js:178-188).
RECURSIVE RunProcessListeners(_, _, _)
RunProcessListeners(s, qualifying, n) ==
    IF n = 0 THEN s
    ELSE RunProcessListeners(IF qualifying THEN _emittidyExitEvent(s) ELSE s,
                             qualifying, n - 1)

Qualifying(source, payload) == source # "message" \/ payload = "shutdown"

ProcessEmit(s, source, payload) ==
    RunProcessListeners([s EXCEPT !.process_listeners[source] = 0,
                                  !.fired[source] = @ + s.process_listeners[source]],
                        Qualifying(source, payload),
                        s.process_listeners[source])

\* ------------------------------------------------------------------------
\* Express and http hooks (tidy-exit.js:419-489)
\* ------------------------------------------------------------------------
\* hookExpressApp that does not look at the app's tidy_exit_state setting.
hookExpressApp_rebinds(s) ==
    LET id == Len(s.tasks) + 1
        s1 == [s EXCEPT !.app.middleware = @ + 1,
                        !.app.state = "false",
                        !.app.flip_tasks = @ + 1,
                        !.tasks = Append(@,
                            [kind |-> "router", sync |-> 1, slot |-> 0,
                             calls |-> 0, stale |-> FALSE, waiting |-> FALSE,
                             invoked |-> 0])]
    IN addTidyExitHandler(s1, id, Undefined)

hookExpressApp(s) ==
    IF s.app.state = "undefined"
    THEN LET id == Len(s.tasks) + 1
             s1 == [s EXCEPT !.app.middleware = @ + 1,
                             !.app.state = "false",
                             !.app.flip_tasks = @ + 1,
                             !.tasks = Append(@,
                                 [kind |-> "router", sync |-> 1, slot |-> 0,
                                  calls |-> 0, stale |-> FALSE,
                                  waiting |-> FALSE,
                             invoked |-> 0])]
         IN addTidyExitHandler(s1, id, Undefined)
    ELSE s

\* What a call of hookExpressApp evaluates to: the function has no return
\* statement on either branch.
hookExpressApp_returns == "undefined"

\* Duck typing: an express app has use, set and get; a plain request
\* listener function has none of them.
_detectAndHookExpressApp(s, listener) ==
    IF listener = "app" THEN hookExpressApp(s) ELSE s

\* hook_apps is the second argument: "undefined" when it is left out.
hookHttpServer(s, hook_apps) ==
    LET id == Len(s.tasks) + 1
        s1 == [s EXCEPT !.tasks = Append(@,
                  [kind |-> "server", sync |-> 0, slot |-> 0, calls |-> 0,
                   stale |-> FALSE, waiting |-> FALSE,
                             invoked |-> 0])]
        s2 == addTidyExitHandler(s1, id, Undefined)
    IN IF hook_apps # "false"
       THEN _detectAndHookExpressApp(s2, s.server.handler)
       ELSE s2

\* What a call of hookHttpServer evaluates to: no return statement.
hookHttpServer_returns == "undefined"

\* The server's 'close' event: every completion callback given to
\* server.close and not yet called is called.
RECURSIVE EmitClose(_, _)
EmitClose(s, i) ==
    IF i > Len(s.tasks) THEN s
    ELSE EmitClose(IF s.tasks[i].waiting
                   THEN TaskCallsDone([s EXCEPT !.tasks[i].waiting = FALSE], i)
                   ELSE s,
                   i + 1)

ServerCloseEvent(s) == EmitClose([s EXCEPT !.server.closed = TRUE], 1)

\* ------------------------------------------------------------------------
\* Reset (tidy-exit.js:367-385)
\* ------------------------------------------------------------------------
\* A task whose listener was never run is unreachable once the emitter is
\* replaced; a task that was run keeps its completion callback.
RECURSIVE KeepClosures(_)
KeepClosures(q) ==
    IF q = <<>> THEN <<>>
    ELSE IF Head(q).slot > 0
         THEN <<[Head(q) EXCEPT !.stale = TRUE]>> \o KeepClosures(Tail(q))
         ELSE KeepClosures(Tail(q))

\* _init without clearTimeout: the timer armed before stays pending.
_init_keepsTimer(s) ==
    LET s1 == [s EXCEPT !.handler_callback_registry = <<>>,
                        !.registered_handlers_count = 0,
                        !.tidy_listeners = <<>>,
                        !.done_listeners = 0]
        s2 == _cleanupExitListeners(s1)
    IN [s2 EXCEPT !.max_timeout = Num(0),
                  !.max_handler_timeout = 0,
                  !.tasks = KeepClosures(@),
                  !.exit_calls = <<>>,
                  !.broadcasts = 0,
                  !.timeout_args = <<>>,
                  !.fired = [g \in EXIT_SOURCES |-> 0],
                  !.timers_armed = 0,
                  !.timer_fires = 0]

_init(s) ==
    LET s1 == [s EXCEPT !.handler_callback_registry = <<>>,
                        !.registered_handlers_count = 0,
                        !.tidy_listeners = <<>>,
                        !.done_listeners = 0]
        s2 == _cleanupExitListeners(s1)
    IN [s2 EXCEPT !.max_timeout = Num(0),
                  !.max_handler_timeout = 0,
                  !.default_exit_timer = "null",
                  !.timer_duration = 0,
                  !.tasks = KeepClosures(@),
                  !.exit_calls = <<>>,
                  !.broadcasts = 0,
                  !.timeout_args = <<>>,
                  !.fired = [g \in EXIT_SOURCES |-> 0],
                  !.timers_armed = 0,
                  !.timer_fires = 0]

\* ------------------------------------------------------------------------
\* Initial state: the module has been loaded (tidy-exit.js:494)
\* ------------------------------------------------------------------------
Init ==
    /\ max_timeout = Num(0)
    /\ max_handler_timeout = 0
    /\ listening_to_exit = FALSE
    /\ exit_signal_handlers = [g \in EXIT_SOURCES |-> 0]
    /\ process_listeners = [g \in EXIT_SOURCES |-> 0]
    /\ tidy_listeners = <<>>
    /\ done_listeners = 0
    /\ handler_callback_registry = <<>>
    /\ registered_handlers_count = 0
    /\ default_exit_timer = "null"
    /\ timer_duration = 0
    /\ tasks = <<>>
    /\ exit_calls = <<>>
    /\ broadcasts = 0
    /\ triggers = 0
    /\ timeout_args = <<>>
    /\ signals = 0
    /\ resets = 0
    /\ fired = [g \in EXIT_SOURCES |-> 0]
    /\ timers_armed = 0
    /\ timer_fires = 0
    /\ app = [state |-> "undefined", middleware |-> 0, flip_tasks |-> 0]
    /\ server = [handler |-> "none", accepting |-> FALSE, requests |-> 0,
                 closed |-> FALSE]
    /\ hook_log = [router_hooked |-> FALSE, server_hooked |-> FALSE,
                   server_return |-> "none", app_return |-> "none",
                   app_calls |-> 0]

\* ------------------------------------------------------------------------
\* Actions
\* ------------------------------------------------------------------------
\* The application registers a task; sync is the number of times the task
\* invokes its completion callback before its callback returns.
AddTidyExitHandler(timeouts, syncs) ==
    /\ Len(tasks) < MaxTasks
    /\ \E timeout \in timeouts, sync \in syncs :
        LET id == Len(tasks) + 1
            s1 == [Cur EXCEPT !.tasks = Append(@,
                      [kind |-> "plain", sync |-> sync, slot |-> 0,
                       calls |-> 0, stale |-> FALSE, waiting |-> FALSE,
                             invoked |-> 0])]
        IN Commit(addTidyExitHandler(s1, id, timeout))
    /\ UNCHANGED <<triggers, signals, resets, hook_log>>

SetMaxTimeout(timeouts) ==
    /\ \E timeout \in timeouts : Commit(setMaxTimeout(Cur, timeout))
    /\ UNCHANGED <<triggers, signals, resets, hook_log>>

\* A signal or an inter-process message is delivered to the process.
Deliver(source, payload) ==
    /\ signals < MaxSignals
    /\ Commit(ProcessEmit(Cur, source, payload))
    /\ triggers' = IF Qualifying(source, payload) THEN triggers + 1 ELSE triggers
    /\ signals' = signals + 1
    /\ UNCHANGED <<resets, hook_log>>

SignalFrom(sources) == \E source \in sources : Deliver(source, "")

Signal == SignalFrom(SYSTEM_EXIT_SIGNALS)

ShutdownMessage == Deliver("message", "shutdown")

OtherMessage == Deliver("message", "not-shutdown")

\* A notified task invokes its completion callback after its callback
\* returned (also a callback handed out before a _reset).
TaskDone ==
    /\ \E i \in 1..Len(tasks) :
        /\ tasks[i].kind = "plain"
        /\ tasks[i].slot > 0
        /\ tasks[i].calls < MaxDoneCalls
        /\ Commit(TaskCallsDone(Cur, i))
    /\ UNCHANGED <<triggers, signals, resets, hook_log>>

\* The safety-net timer fires.
TimerFire ==
    /\ default_exit_timer = "pending"
    /\ Commit(TimerCallback(Cur))
    /\ UNCHANGED <<triggers, signals, resets, hook_log>>

Reset ==
    /\ resets < MaxResets
    /\ Commit(_init(Cur))
    /\ triggers' = 0
    /\ resets' = resets + 1
    /\ hook_log' = [hook_log EXCEPT !.router_hooked = FALSE,
                                    !.server_hooked = FALSE]
    /\ UNCHANGED signals

Next ==
    \/ AddTidyExitHandler(LifecycleTimeouts, 0..MaxSync)
    \/ SetMaxTimeout(LifecycleMaxTimeouts)
    \/ Signal
    \/ ShutdownMessage
    \/ OtherMessage
    \/ TaskDone
    \/ TimerFire
    \/ Reset

Spec == Init /\ [][Next]_vars

\* The timer the library armed with setTimeout eventually fires.
FairSpec == Spec /\ WF_vars(TimerFire)

\* The application creates its http server, http.createServer(handler),
\* with an express app or a plain function as request listener.
CreateServer ==
    /\ server.handler = "none"
    /\ \E handler \in {"app", "function"} :
        Commit([Cur EXCEPT !.server = [handler |-> handler, accepting |-> TRUE,
                                       requests |-> 0, closed |-> FALSE]])
    /\ UNCHANGED <<triggers, signals, resets, hook_log>>

HookHttpServer ==
    /\ server.handler # "none"
    /\ Len(tasks) < MaxTasks
    /\ \E hook_apps \in {"undefined", "true", "false"} :
        /\ Commit(hookHttpServer(Cur, hook_apps))
        /\ hook_log' =
              [hook_log EXCEPT
                  !.server_return = hookHttpServer_returns,
                  !.server_hooked = @ \/ broadcasts = 0,
                  !.router_hooked = @ \/ /\ broadcasts = 0
                                         /\ hook_apps # "false"
                                         /\ server.handler = "app"]
    /\ UNCHANGED <<triggers, signals, resets>>

HookExpressApp ==
    /\ hook_log.app_calls < MaxHookCalls
    /\ app.state # "undefined" \/ Len(tasks) < MaxTasks
    /\ Commit(hookExpressApp(Cur))
    /\ hook_log' =
          [hook_log EXCEPT
              !.app_calls = @ + 1,
              !.app_return = IF app.state = "undefined"
                             THEN hookExpressApp_returns ELSE @,
              !.router_hooked = @ \/ broadcasts = 0]
    /\ UNCHANGED <<triggers, signals, resets>>

\* A request reaches the server; a request in flight is answered.
RequestStart ==
    /\ server.accepting
    /\ server.requests < MaxRequests
    /\ Commit([Cur EXCEPT !.server.requests = @ + 1])
    /\ UNCHANGED <<triggers, signals, resets, hook_log>>

RequestEnd ==
    /\ server.requests > 0
    /\ Commit([Cur EXCEPT !.server.requests = @ - 1])
    /\ UNCHANGED <<triggers, signals, resets, hook_log>>

\* The closing server has no connection left and emits 'close'.
ServerClosed ==
    /\ server.handler # "none"
    /\ ~server.accepting
    /\ server.requests = 0
    /\ \E i \in 1..Len(tasks) : tasks[i].waiting
    /\ Commit(ServerCloseEvent(Cur))
    /\ UNCHANGED <<triggers, signals, resets, hook_log>>

\* The coordinator with an http server and an express app hooked to it.
NextHooks ==
    \/ AddTidyExitHandler(LifecycleTimeouts, {0})
    \/ CreateServer
    \/ HookHttpServer
    \/ HookExpressApp
    \/ RequestStart
    \/ RequestEnd
    \/ ServerClosed
    \/ SignalFrom({"SIGTERM"})
    \/ ShutdownMessage
    \/ TaskDone
    \/ TimerFire
    \/ Reset

SpecHooks == Init /\ [][NextHooks]_vars

\* The timeout policy alone, over every timeout argument.
NextTimeout ==
    \/ AddTidyExitHandler(TimeoutArgs, {0})
    \/ SetMaxTimeout(TimeoutArgs)
    \/ Reset

SpecTimeout == Init /\ [][NextTimeout]_vars

\* ------------------------------------------------------------------------
\* After a _reset in the middle of a shutdown
\* ------------------------------------------------------------------------
\* The coordinator as the module is loaded (tidy-exit.js:99-108, 494).
Loaded ==
    [max_timeout |-> Num(0),
     max_handler_timeout |-> 0,
     listening_to_exit |-> FALSE,
     exit_signal_handlers |-> [g \in EXIT_SOURCES |-> 0],
     process_listeners |-> [g \in EXIT_SOURCES |-> 0],
     tidy_listeners |-> <<>>,
     done_listeners |-> 0,
     handler_callback_registry |-> <<>>,
     registered_handlers_count |-> 0,
     default_exit_timer |-> "null",
     timer_duration |-> 0,
     tasks |-> <<>>,
     exit_calls |-> <<>>,
     broadcasts |-> 0,
     timeout_args |-> <<>>,
     fired |-> [g \in EXIT_SOURCES |-> 0],
     timers_armed |-> 0,
     timer_fires |-> 0,
     app |-> [state |-> "undefined", middleware |-> 0, flip_tasks |-> 0],
     server |-> [handler |-> "none", accepting |-> FALSE, requests |-> 0,
                 closed |-> FALSE],
     uninvoked |-> 0]

\* n calls of addTidyExitHandler, each with a task that completes after
\* its callback returned.
RECURSIVE RegisterTasks(_, _)
RegisterTasks(s, n) ==
    IF n = 0 THEN s
    ELSE LET id == Len(s.tasks) + 1
             s1 == [s EXCEPT !.tasks = Append(@,
                       [kind |-> "plain", sync |-> 0, slot |-> 0,
                        calls |-> 0, stale |-> FALSE, waiting |-> FALSE,
                        invoked |-> 0])]
         IN RegisterTasks(addTidyExitHandler(s1, id, Undefined), n - 1)

\* n tasks registered and notified by SIGTERM, none completed, then
\* _reset(); then m tasks registered and, if m > 0, notified by SIGTERM.
AfterResetState(n, m) ==
    LET s1 == ProcessEmit(RegisterTasks(Loaded, n), "SIGTERM", "")
        s2 == _init(s1)
    IN IF m = 0 THEN s2
       ELSE ProcessEmit(RegisterTasks(s2, m), "SIGTERM", "")

InitAfterReset ==
    \E n \in 1..MaxStale, m \in 0..MaxTasks :
        LET s == AfterResetState(n, m) IN
        /\ max_timeout = s.max_timeout
        /\ max_handler_timeout = s.max_handler_timeout
        /\ listening_to_exit = s.listening_to_exit
        /\ exit_signal_handlers = s.exit_signal_handlers
        /\ process_listeners = s.process_listeners
        /\ tidy_listeners = s.tidy_listeners
        /\ done_listeners = s.done_listeners
        /\ handler_callback_registry = s.handler_callback_registry
        /\ registered_handlers_count = s.registered_handlers_count
        /\ default_exit_timer = s.default_exit_timer
        /\ timer_duration = s.timer_duration
        /\ tasks = s.tasks
        /\ exit_calls = s.exit_calls
        /\ broadcasts = s.broadcasts
        /\ timeout_args = s.timeout_args
        /\ fired = s.fired
        /\ timers_armed = s.timers_armed
        /\ timer_fires = s.timer_fires
        /\ app = s.app
        /\ server = s.server
        /\ triggers = IF m = 0 THEN 0 ELSE 1
        /\ signals = IF m = 0 THEN 1 ELSE 2
        /\ resets = 1
        /\ hook_log = [router_hooked |-> FALSE, server_hooked |-> FALSE,
                       server_return |-> "none", app_return |-> "none",
                       app_calls |-> 0]

\* What can still happen without another call of the application: the
\* completion callbacks handed out are invoked, the pending timer fires.
NextAfterReset ==
    \/ TaskDone
    \/ TimerFire

SpecAfterReset == InitAfterReset /\ [][NextAfterReset]_vars

\* ------------------------------------------------------------------------
\* Properties
\* ------------------------------------------------------------------------
\* The numeric timeouts among the registered arguments (others count 0).
RECURSIVE TimeoutValues(_)
TimeoutValues(q) ==
    IF q = <<>> THEN <<>>
    ELSE <<IF Head(q).t = "number" THEN Head(q).v ELSE 0>>
         \o TimeoutValues(Tail(q))

\* The running maximum, starting from 0.
RECURSIVE SeqMax(_)
SeqMax(q) == IF q = <<>> THEN 0
             ELSE LET m == SeqMax(Tail(q)) IN IF Head(q) > m THEN Head(q) ELSE m

MaxUnset(M) == M.t # "number" \/ M.v = 0

ResolveTimeout(H, M) ==
    IF H # 0 /\ (MaxUnset(M) \/ M.v > H) THEN H
    ELSE IF ~MaxUnset(M) THEN M.v
    ELSE 120000

\* C1: after any sequence of setMaxTimeout and addTidyExitHandler calls since
\* the last _reset, getTimeout() is H if H is set and (M is unset or M > H),
\* else M if M is set, else 120000, with H the maximum of the handler
\* timeouts registered so far and M the last setMaxTimeout argument.
C1_GetTimeoutResolution ==
    getTimeout(Cur) = ResolveTimeout(SeqMax(TimeoutValues(timeout_args)), max_timeout)

\* A handler timeout above an explicit maximum registered after it.
C1_Witness ==
    /\ Len(timeout_args) = 2
    /\ SeqMax(TimeoutValues(timeout_args)) = 2
    /\ max_timeout = Num(1)
    /\ getTimeout(Cur) = 1

\* C2: when two qualifying triggers arrive between resets, at most one
\* broadcast is emitted and process.exit is called at most once in total.
C2_OneBroadcastOneExit ==
    triggers >= 2 => (broadcasts <= 1 /\ Len(exit_calls) <= 1)

\* C3: in one shutdown cycle started by a single signal, process.exit is
\* called at most once whatever the order of completions and timer.
C3_ExitAtMostOncePerCycle ==
    (resets = 0 /\ broadcasts <= 1) => Len(exit_calls) <= 1

\* C4: once a broadcast was emitted, process.exit is eventually called,
\* unless a _reset follows (the armed timer eventually fires).
C4_BroadcastLeadsToExit ==
    (broadcasts > 0) ~> (exit_calls # <<>> \/ broadcasts = 0)

\* A cycle ended by the timer: a notified task never completed.
C4_Witness ==
    /\ broadcasts > 0
    /\ default_exit_timer = "fired"
    /\ PendingTasks(Cur) # {}
    /\ \E k \in 1..Len(exit_calls) : exit_calls[k].status = 1

\* C5: while a task notified by the broadcast has not invoked its completion
\* callback, process.exit is not called before the safety-net timer fires,
\* and it is called with status 1 when the timer fires.
C5_PendingTaskExitsOnlyByTimeout ==
    (broadcasts = 1 /\ PendingTasks(Cur) # {}) =>
        /\ \A k \in 1..Len(exit_calls) : exit_calls[k].timer_fired
        /\ default_exit_timer = "fired" =>
               \E k \in 1..Len(exit_calls) : exit_calls[k].status = 1

\* C6: when every task notified by the broadcast has invoked its completion
\* callback, process.exit(0) was called at the completion that drained the
\* set, whether or not the timer has fired.
C6_DrainedExitsZero ==
    (broadcasts > 0 /\ PendingTasks(Cur) = {}) =>
        \E k \in 1..Len(exit_calls) :
            exit_calls[k].status = 0 /\ exit_calls[k].pending = 0

\* One task completing inside its callback: exit 0 during the broadcast,
\* with the timer still pending.
C6_Witness ==
    /\ broadcasts = 1
    /\ Len(tasks) = 1
    /\ tasks[1].sync = 1
    /\ tasks[1].calls = 1
    /\ default_exit_timer = "pending"
    /\ Len(exit_calls) = 1
    /\ exit_calls[1].status = 0
    /\ ~exit_calls[1].timer_fired
    /\ exit_calls[1].pending = 0

\* No completion callback handed out before a _reset is still around.
NoEarlierCycle == \A i \in 1..Len(tasks) : ~tasks[i].stale

\* C7: without an intervening _reset, every process.exit(0) is called when
\* all notified tasks have completed, and every process.exit(1) after the
\* timer fired with a notified task that has not completed.
C7_ExitCodesMeanWhatTheySay ==
    NoEarlierCycle =>
        \A k \in 1..Len(exit_calls) :
            /\ exit_calls[k].status = 0 => exit_calls[k].pending = 0
            /\ exit_calls[k].status = 1 =>
                   exit_calls[k].timer_fired /\ exit_calls[k].pending > 0

\* Both exit codes produced in one cycle: forced exit, then the late drain.
C7_Witness ==
    /\ NoEarlierCycle
    /\ Len(exit_calls) >= 2
    /\ exit_calls[1].status = 1
    /\ exit_calls[2].status = 0

\* C8: a qualifying trigger delivered while no cleanup task has been
\* registered since load or the last _reset still ends in a process.exit
\* call within the timeout: once the trigger is handled, process.exit has
\* been called or the safety-net timer is pending.
C8_TriggerWithoutTasksArmsExit ==
    (triggers > 0 /\ \A i \in 1..Len(tasks) : tasks[i].stale) =>
        (exit_calls # <<>> \/ default_exit_timer = "pending")

\* C9: a message other than 'shutdown' has no side effect on the coordinator.
C9_OtherMessageChangesNothing ==
    [][OtherMessage =>
          UNCHANGED <<max_timeout, max_handler_timeout, listening_to_exit,
                      exit_signal_handlers, process_listeners, tidy_listeners,
                      done_listeners, handler_callback_registry,
                      registered_handlers_count, default_exit_timer,
                      timer_duration, tasks, exit_calls, broadcasts>>]_vars

AfterReset ==
    /\ \A g \in EXIT_SOURCES : process_listeners[g] = 0
    /\ handler_callback_registry = <<>>
    /\ registered_handlers_count = 0
    /\ default_exit_timer # "pending"
    /\ getTimeout(Cur) = 120000

\* C10: after _reset() no listener of the coordinator is bound on process,
\* the completion registry is empty, the snapshot count is 0, no safety-net
\* timer is pending and getTimeout() is 120000.
C10_ResetClearsEverything == [][Reset => AfterReset']_vars

\* A _reset in the middle of a shutdown cycle: a task was notified and its
\* completion callback is still outstanding.
C10_Witness ==
    /\ resets >= 1
    /\ AfterReset
    /\ timeout_args = <<>>
    /\ \E i \in 1..Len(tasks) : tasks[i].stale /\ tasks[i].calls = 0

\* C11: while a maximum M > 0 set with setMaxTimeout is in force,
\* getTimeout() <= M, whatever handler timeouts are registered and whether
\* they were registered before or after setMaxTimeout was called.
C11_MaxTimeoutCaps ==
    (max_timeout.t = "number" /\ max_timeout.v > 0) =>
        getTimeout(Cur) <= max_timeout.v

\* The explicit maximum caps one larger handler timeout.
C11_Witness ==
    /\ max_timeout = Num(1)
    /\ max_handler_timeout = 2
    /\ Len(timeout_args) = 1
    /\ getTimeout(Cur) = 1

\* C12: for a server hooked with hookHttpServer before the shutdown was
\* triggered, process.exit(0) is not called while a request is in flight:
\* it is called only after the server's 'close' event has fired.
C12_NoExitWhileRequestInFlight ==
    hook_log.server_hooked =>
        \A k \in 1..Len(exit_calls) :
            exit_calls[k].status = 0 =>
                exit_calls[k].in_flight = 0 /\ exit_calls[k].server_closed

\* C13: for a router on which hookExpressApp was called before the shutdown
\* was triggered, tidy_exit_state is true whenever process.exit is called.
C13_FlagTrueBeforeExit ==
    hook_log.router_hooked =>
        \A k \in 1..Len(exit_calls) : exit_calls[k].flag = "true"

\* The tasks registered for the express app that are still around.
RouterTasks == {i \in 1..Len(tasks) : tasks[i].kind = "router"}

\* C14: for any number and order of hookExpressApp and hookHttpServer
\* calls, the middleware is installed on the app at most once and at most
\* one flag-flipping task is registered for it; a hookExpressApp call on an
\* app that already carries tidy_exit_state returns undefined and changes
\* nothing.
C14_HookExpressAppIdempotent ==
    /\ [](/\ app.middleware <= 1
          /\ app.flip_tasks <= 1
          /\ Cardinality(RouterTasks) <= 1)
    /\ [][(hook_log'.app_calls = hook_log.app_calls + 1
              /\ app.state # "undefined") =>
             /\ hookExpressApp_returns = "undefined"
             /\ UNCHANGED <<max_timeout, max_handler_timeout,
                            listening_to_exit, exit_signal_handlers,
                            process_listeners, tidy_listeners,
                            done_listeners, handler_callback_registry,
                            registered_handlers_count, default_exit_timer,
                            timer_duration, tasks, exit_calls, broadcasts,
                            timeout_args, app, server>>]_vars

\* The app was hooked through its server and then twice directly.
C14_Witness ==
    /\ server.handler = "app"
    /\ hook_log.server_return # "none"
    /\ hook_log.app_calls = 2
    /\ app.middleware = 1
    /\ app.flip_tasks = 1
    /\ Cardinality(RouterTasks) = 1

\* C15: hookHttpServer, and the first hookExpressApp call on an app, return
\* a handle (an object exposing close()).
C15_HooksReturnHandle ==
    /\ hook_log.server_return \in {"none", "handle"}
    /\ hook_log.app_return \in {"none", "handle"}

\* C16 as stated: once addTidyExitHandler has been called since the last
\* _reset, each of the four sources has exactly one coordinator listener
\* bound on process and exactly one handle tracked.
C16_ExactlyOneListenerBound ==
    (timeout_args # <<>>) =>
        \A g \in EXIT_SOURCES :
            process_listeners[g] = 1 /\ exit_signal_handlers[g] = 1

\* C16: arming is idempotent. Once addTidyExitHandler has been called since
\* the last _reset, whatever the number of calls, each of the four sources
\* has exactly one handle tracked and at most one coordinator listener
\* bound: exactly one until an event of that source is delivered, none
\* afterwards. The listener of a source therefore runs, and can call the
\* shutdown trigger, at most once between resets.
C16_ArmingIsIdempotent ==
    /\ (timeout_args # <<>>) => listening_to_exit
    /\ \A g \in EXIT_SOURCES :
        /\ exit_signal_handlers[g] = IF listening_to_exit THEN 1 ELSE 0
        /\ process_listeners[g] + fired[g] = exit_signal_handlers[g]
        /\ fired[g] <= 1

\* Several registrations, then two SIGTERMs: the listener ran once and is no
\* longer bound, its handle is still tracked, the other sources stay armed.
C16_Witness ==
    /\ Len(timeout_args) >= 3
    /\ signals = 2
    /\ fired["SIGTERM"] = 1
    /\ process_listeners["SIGTERM"] = 0
    /\ exit_signal_handlers["SIGTERM"] = 1
    /\ process_listeners["SIGINT"] = 1
    /\ process_listeners["message"] = 1

\* C17: a task registered after a shutdown broadcast was emitted (its
\* listener has not run although a broadcast took place) is not invoked
\* before the next _reset, whatever signals or messages arrive.
C17_LateTaskNeverInvoked ==
    [][resets' = resets =>
          \A i \in 1..Len(tasks) :
              (broadcasts >= 1 /\ ~tasks[i].stale /\ tasks[i].slot = 0) =>
                  tasks'[i].slot = 0]_vars

\* C18: between two resets the completion observer is subscribed to 'done'
\* at most once (and with it the default task registered at most once),
\* however many times the shutdown trigger is entered.
C18_ObserverSubscribedOnce == done_listeners <= 1

\* C19: between two resets at most one safety-net timer is armed and the
\* timer callback runs at most once, however many times the default task
\* is invoked.
C19_OneTimerPerCycle == timers_armed <= 1 /\ timer_fires <= 1

\* The default task ran twice, the second time after the timer fired.
C19_Witness ==
    /\ broadcasts = 2
    /\ done_listeners = 2
    /\ default_exit_timer = "fired"
    /\ timers_armed = 1
    /\ timer_fires = 1

\* C20: a completion callback handed out before a _reset, invoked after
\* it, changes no counter of the new registry and causes no process.exit
\* call.
C20_StaleCallbackChangesNothing ==
    [][(\E i \in 1..Len(tasks) :
            tasks[i].stale /\ Len(tasks') = Len(tasks)
                           /\ tasks'[i].calls = tasks[i].calls + 1) =>
          UNCHANGED <<handler_callback_registry, exit_calls>>]_vars

\* C29: for every sequence of setMaxTimeout and addTidyExitHandler calls
\* with integer (zero and negative included), null or missing timeout
\* arguments, getTimeout() returns a strictly positive number.
C29_GetTimeoutPositive == getTimeout(Cur) > 0

\* C28: between two resets the callback of every registered task is invoked
\* at most once, whatever signals and messages are delivered, and only by
\* a shutdown broadcast: never at registration.
C28_TaskInvokedAtMostOnce ==
    \A i \in 1..Len(tasks) :
        /\ tasks[i].invoked <= 1
        /\ tasks[i].invoked = 1 <=> tasks[i].slot > 0
        /\ (broadcasts = 0 /\ ~tasks[i].stale) => tasks[i].invoked = 0

\* Two broadcasts in one cycle: a task notified by the first one was not
\* invoked again by the second, which invoked a task registered in between.
C28_Witness ==
    /\ broadcasts = 2
    /\ Len(tasks) = 2
    /\ \A i \in 1..2 : ~tasks[i].stale /\ tasks[i].invoked = 1
    /\ tasks[1].slot = 1
    /\ tasks[2].slot = 3

\* The application tasks registered since the last _reset.
RegisteredTasks == {i \in 1..Len(tasks) : ~tasks[i].stale}

\* C22 as stated: in every reachable state the length of the completion
\* registry equals the number of cleanup tasks registered with
\* addTidyExitHandler since the last _reset.
C22_LengthIsRegisteredTasks ==
    Len(handler_callback_registry) = Cardinality(RegisteredTasks)

\* C22: in every reachable state the length of the completion registry
\* equals the number of listeners run by a broadcast since the last _reset:
\* the addTidyExitHandler registrations made since then (the default task's
\* included) less the listeners still subscribed. A slot is appended when a
\* task's listener runs, not when the task is registered, so the registry
\* is empty until the first broadcast.
C22_LengthIsNotifiedListeners ==
    /\ Len(handler_callback_registry) + Len(tidy_listeners) = Len(timeout_args)
    /\ broadcasts = 0 => handler_callback_registry = <<>>

\* One task notified with the default task, one registered after the
\* broadcast and still subscribed.
C22_Witness ==
    /\ broadcasts = 1
    /\ Cardinality(RegisteredTasks) = 2
    /\ Len(handler_callback_registry) = 2
    /\ Len(tidy_listeners) = 1
    /\ Len(timeout_args) = 3

\* C24: when the safety-net timer fires while every slot of the registry is
\* marked done, the timer callback does not call process.exit and leaves
\* the tracker as it is.
C24_TimerNoOpWhenDrained ==
    [][(timer_fires' = timer_fires + 1 /\ AllDone(Cur)) =>
          UNCHANGED <<exit_calls, handler_callback_registry,
                      registered_handlers_count>>]_vars

\* C25: a slot's counter equals the number of times the completion
\* callback of the task holding the slot was invoked: each invocation
\* increments that counter by exactly one, also after more than one
\* shutdown trigger.
C25_CounterIsInvocationCount ==
    \A i \in 1..Len(tasks) :
        (~tasks[i].stale /\ tasks[i].slot > 0) =>
            handler_callback_registry[tasks[i].slot] = tasks[i].calls

\* C27: the safety-net timer is armed with the value of getTimeout() at
\* the moment the default task runs in the first broadcast, when every
\* application task of that broadcast has been invoked (the default task
\* holds the last slot); while the timer is armed or has fired, nothing
\* changes its delay.
C27_TimerDelayFixedAtFirstBroadcast ==
    [][/\ (default_exit_timer = "null" /\ default_exit_timer' # "null") =>
              (/\ timer_duration' = getTimeout(Cur)
               /\ \A i \in RegisteredTasks :
                      /\ tasks'[i].slot > 0
                      /\ tasks'[i].slot < Len(handler_callback_registry'))
       /\ (default_exit_timer # "null" /\ default_exit_timer' # "null") =>
              (timer_duration' = timer_duration)]_vars

\* The timer was armed with the default delay after a task had been
\* invoked; setMaxTimeout(2) called afterwards changed getTimeout() only.
C27_Witness ==
    /\ default_exit_timer = "pending"
    /\ timer_duration = DEFAULT_GRACEFUL_TIMEOUT
    /\ getTimeout(Cur) = 2
    /\ \E i \in 1..Len(tasks) : ~tasks[i].stale /\ tasks[i].slot > 0

\* C30: an app whose tidy_exit_state is false, hooked since the last
\* _reset, has a flag-flipping task subscribed to the shutdown broadcast.
C30_FalseFlagHasTask ==
    (hook_log.router_hooked /\ app.state = "false") =>
        \E k \in 1..Len(tidy_listeners) :
            /\ tidy_listeners[k] # DEFAULT_HANDLER
            /\ tasks[tidy_listeners[k]].kind = "router"

\* C23: process.exit(0) is never called before every listener counted by
\* the snapshot of the broadcast under way has been invoked, even when
\* earlier listeners complete inside their callback.
C23_NoExitBeforeAllInvoked ==
    \A k \in 1..Len(exit_calls) :
        exit_calls[k].status = 0 => exit_calls[k].uninvoked = 0

\* C21: after _reset() and until a new shutdown trigger is delivered,
\* process.exit is not called: neither by the timer armed before the
\* reset nor by completion callbacks handed out before it.
C21_ResetCancelsShutdown ==
    (resets >= 1 /\ triggers = 0) => exit_calls = <<>>

\* A completion callback handed out before the _reset was invoked after
\* it; the timer armed before the _reset is no longer there.
C21_Witness ==
    /\ resets = 1
    /\ triggers = 0
    /\ default_exit_timer = "null"
    /\ exit_calls = <<>>
    /\ \E i \in 1..Len(tasks) : tasks[i].stale /\ tasks[i].calls >= 1

\* C26: a completion signal that carries a slot index greater than the
\* registry length (a callback handed out before a _reset), or no index
\* (the timer's check), changes no counter, nor the registry length, nor
\* the snapshot count.
C26_BadIndexLeavesTracker ==
    [][((timer_fires' = timer_fires + 1)
          \/ (\E i \in 1..Len(tasks) :
                 /\ tasks[i].slot > Len(handler_callback_registry)
                 /\ tasks'[i].calls = tasks[i].calls + 1)) =>
          UNCHANGED <<handler_callback_registry,
                      registered_handlers_count>>]_vars

\* In a cycle with a registry of two slots, the callback holding slot 3 of
\* the cycle before the _reset was invoked, and the timer has fired.
C26_Witness ==
    /\ done_listeners = 1
    /\ Len(handler_callback_registry) = 2
    /\ timer_fires = 1
    /\ \E i \in 1..Len(tasks) :
           tasks[i].stale /\ tasks[i].slot = 3 /\ tasks[i].calls >= 1

====
